---- MODULE Spec2Model ----
(***************************************************************************)
(* directus-to-data (directusToData.js, version 0.7.2): a state-machine    *)
(* model of the retrying request wrapper, the settings resolution, the     *)
(* collection-name normalisation and the invocation's control flow.        *)
(*                                                                         *)
(* Strings the program inspects character by character (collection names,  *)
(* path templates) are sequences of one-character strings.  Values the     *)
(* program only passes along (request results, errors) are atoms.          *)
(***************************************************************************)
EXTENDS Integers, Sequences, FiniteSets, TLC

VARIABLES
    requestStagger,  \* let requestStagger (line 9): process-wide counter
    calls,           \* one record per directusRequest() call, in call order
    budget,          \* failures the environment may still cause (bound of the model)
    sources,         \* SpecResolve: one setting's explicit, config and env values
    resolved,        \* SpecResolve: the value lines 192-200 leave in the setting
    searched,        \* SpecImages: the object handed to findImagesInDirectusData
    found,           \* SpecImages: what findImagesInDirectusData returned
    input,           \* the invocation's parameters, config file and environment
    inv,             \* module.exports: its position, settings, client, console
    tasks,           \* one record per callback of collectionNameArray.forEach
    assets,          \* one record per callback of images.forEach
    files,           \* writes handed to fs, in call order
    callbacks        \* callback(data) invocations, in call order

wrapperVars == <<requestStagger, calls, budget>>
resolveVars == <<sources, resolved>>
imageVars == <<searched, found>>
flowVars == <<input, inv, tasks, assets, files, callbacks>>
vars == <<requestStagger, calls, budget, sources, resolved, searched, found,
          input, inv, tasks, assets, files, callbacks>>

----------------------------------------------------------------------------
(* Bounds of the model *)

\* top-level directusRequest calls the environment makes in SpecRequest
MaxTopCalls == 1
\* requests the CMS may fail (reject or answer empty) in SpecRequest
MaxRequestFaults == 3
\* failures (failed requests, failed file operations) in one run of Spec
MaxFaults == 3

----------------------------------------------------------------------------
(* JavaScript values of settings: strings are sequences of characters *)

Str(chars) == [t |-> "string", s |-> chars, a |-> << >>, n |-> 0]
Arr(items) == [t |-> "array", s |-> << >>, a |-> items, n |-> 0]
Num(k) == [t |-> "number", s |-> << >>, a |-> << >>, n |-> k]
Bool(b) == [t |-> "boolean", s |-> << >>, a |-> << >>, n |-> IF b THEN 1 ELSE 0]
JsUndefined == [t |-> "undefined", s |-> << >>, a |-> << >>, n |-> 0]
JsNull == [t |-> "null", s |-> << >>, a |-> << >>, n |-> 0]
JsNaN == [t |-> "NaN", s |-> << >>, a |-> << >>, n |-> 0]
EmptyString == Str(<< >>)

\* !v
IsFalsy(v) ==
    \/ v.t \in {"undefined", "null", "NaN"}
    \/ v.t = "string" /\ v.s = << >>
    \/ v.t \in {"number", "boolean"} /\ v.n = 0

\* a || b
Or(a, b) == IF IsFalsy(a) THEN b ELSE a

----------------------------------------------------------------------------
(* Settings resolution, lines 192-200 *)

CollectionNameTemplate ==
    <<"{", "{", "c", "o", "l", "l", "e", "c", "t", "i", "o", "n",
      "N", "a", "m", "e", "}", "}">>
FilenameTemplate == <<"{", "{", "f", "i", "l", "e", "n", "a", "m", "e", "}", "}">>
DefaultCollectionOutput == Str(CollectionNameTemplate \o <<".", "j", "s", "o", "n">>)
DefaultAssetsOutput == Str(FilenameTemplate)
DefaultEncoding == Str(<<"u", "t", "f", "-", "8">>)

\* the settings resolved by an `explicit || config[...] || env...` chain
ChainSettings ==
    {"cmsUrl", "staticToken", "collectionName", "collectionOutput",
     "assetsOutput", "encoding", "backupSchema", "restoreSchema"}

\* the literal that ends the chain of a setting, where it has one
HasDefault(setting) ==
    setting \in {"collectionOutput", "assetsOutput", "encoding",
                 "backupSchema", "restoreSchema"}

DefaultOf(setting) ==
    CASE setting = "collectionOutput" -> DefaultCollectionOutput
      [] setting = "assetsOutput" -> DefaultAssetsOutput
      [] setting = "encoding" -> DefaultEncoding
      [] setting \in {"backupSchema", "restoreSchema"} -> JsNull

\* ResolveSetting reading the config file before the call's own parameter
ResolveSettingConfigFirst(setting, explicit, config, env) ==
    IF HasDefault(setting)
    THEN Or(Or(Or(config, explicit), env), DefaultOf(setting))
    ELSE Or(Or(config, explicit), env)

\* x = x || config["x"] || env.X [|| default]
ResolveSetting(setting, explicit, config, env) ==
    IF HasDefault(setting)
    THEN Or(Or(Or(explicit, config), env), DefaultOf(setting))
    ELSE Or(Or(explicit, config), env)

----------------------------------------------------------------------------
(* String methods the program uses, on sequences of characters *)

\* s.includes(ch), ch one character
Includes(s, ch) == \E k \in DOMAIN s : s[k] = ch

\* the position of the first ch in s
FirstIndex(s, ch) == CHOOSE k \in DOMAIN s : s[k] = ch /\ \A j \in 1..(k - 1) : s[j] # ch

\* s.split(sep), sep one character: every piece, not only the first two
RECURSIVE Split(_, _)
Split(s, sep) ==
    IF ~Includes(s, sep) THEN <<s>>
    ELSE LET k == FirstIndex(s, sep)
         IN  <<SubSeq(s, 1, k - 1)>> \o Split(SubSeq(s, k + 1, Len(s)), sep)

StartsAt(s, pat, k) ==
    /\ k + Len(pat) - 1 <= Len(s)
    /\ SubSeq(s, k, k + Len(pat) - 1) = pat

Contains(s, pat) == \E k \in 1..Len(s) : StartsAt(s, pat, k)

\* s.replace(pat, rep) with a string pattern: the first occurrence only
\* (rep holds no "$", so no replacement pattern is expanded)
Replace(s, pat, rep) ==
    IF ~Contains(s, pat) THEN s
    ELSE LET k == CHOOSE i \in 1..Len(s) :
                      StartsAt(s, pat, i) /\ \A j \in 1..(i - 1) : ~StartsAt(s, pat, j)
         IN  SubSeq(s, 1, k - 1) \o rep \o SubSeq(s, k + Len(pat), Len(s))

\* array.includes(x)
ArrayIncludes(array, x) == \E k \in DOMAIN array : array[k] = x

----------------------------------------------------------------------------
(* JSON.parse on the text of an array of plain strings: ["A","B"] *)

Quote == "\""

IsQuoted(piece) ==
    /\ Len(piece) >= 2
    /\ piece[1] = Quote
    /\ piece[Len(piece)] = Quote
    /\ ~Includes(SubSeq(piece, 2, Len(piece) - 1), Quote)

RECURSIVE Unquote(_)
Unquote(pieces) ==
    IF pieces = << >> THEN << >>
    ELSE <<SubSeq(Head(pieces), 2, Len(Head(pieces)) - 1)>> \o Unquote(Tail(pieces))

\* whether JSON.parse(text) succeeds and yields an array of strings
ParsesAsArray(text) ==
    /\ Len(text) >= 2
    /\ text[1] = "["
    /\ text[Len(text)] = "]"
    /\ LET inner == SubSeq(text, 2, Len(text) - 1)
       IN  inner = << >> \/ \A k \in DOMAIN Split(inner, ",") : IsQuoted(Split(inner, ",")[k])

\* the elements of that array
JSONParseArray(text) ==
    LET inner == SubSeq(text, 2, Len(text) - 1)
    IN  IF inner = << >> THEN << >> ELSE Unquote(Split(inner, ","))

----------------------------------------------------------------------------
(* Collection names, lines 209-221 and 312-317 *)

\* lines 213-218.  The argument of JSON.parse is jsonParsedCollectionName, the
\* constant the statement itself declares: reading it throws a ReferenceError
\* before JSON.parse is called, the empty catch swallows it, and
\* collectionNameArray is left as it was
TryJsonParse(collectionName, collectionNameArray) == collectionNameArray

\* lines 209-221: collectionNameArray
NormalizeCollectionName(collectionName) ==
    LET collectionNameArray ==
            IF collectionName.t = "array" THEN collectionName.a
            ELSE TryJsonParse(collectionName, << >>)
    IN  IF Len(collectionNameArray) > 0 THEN collectionNameArray
        ELSE <<collectionName.s>>

\* SelectorOf passing the raw name on as the collection
SelectorOfUnsplit(name) == [collection |-> name, fields |-> JsUndefined]

\* lines 312-317: [collectionName, fields] = collectionName.split(":")
SelectorOf(name) ==
    IF Includes(name, ":")
    THEN [collection |-> Split(name, ":")[1], fields |-> Str(Split(name, ":")[2])]
    ELSE [collection |-> name, fields |-> JsUndefined]

----------------------------------------------------------------------------
(* Request descriptors of the SDK and what the CMS may answer *)

NoEntries == [collections |-> << >>, fields |-> << >>, relations |-> << >>]

\* readItems(collectionName, options), line 319
ReadItems(collection, fields) ==
    [op |-> "readItems", collection |-> collection, fields |-> fields,
     id |-> "none", force |-> JsUndefined, payload |-> NoEntries]

\* readAssetArrayBuffer(id), line 332
ReadAssetArrayBuffer(id) ==
    [op |-> "readAssetArrayBuffer", collection |-> << >>, fields |-> JsUndefined,
     id |-> id, force |-> JsUndefined, payload |-> NoEntries]

\* schemaSnapshot(), line 303
SchemaSnapshot ==
    [op |-> "schemaSnapshot", collection |-> << >>, fields |-> JsUndefined,
     id |-> "none", force |-> JsUndefined, payload |-> NoEntries]

\* schemaDiff(schemaSnapshot, forceSchema), line 243
SchemaDiff(snapshot, force) ==
    [op |-> "schemaDiff", collection |-> << >>, fields |-> JsUndefined,
     id |-> snapshot, force |-> force, payload |-> NoEntries]

\* schemaApply(schemaDiffData), line 297
SchemaApply(diff) ==
    [op |-> "schemaApply", collection |-> << >>, fields |-> JsUndefined,
     id |-> "none", force |-> JsUndefined, payload |-> diff]

Undefined == "undefined"
\* a request fulfilled with nothing (no body): undefined or null
EmptyValue == "empty"

\* !value
Falsy(v) == v \in {Undefined, EmptyValue}

\* item data the CMS may return for a collection
DataIds == {"d0", "d1"}
\* schema snapshots and schema diffs the CMS may return
SchemaIds == {"s1"}
DiffIds == {"f1"}

\* the non-empty values directus.request may fulfil with
Responses(opts) ==
    CASE opts.op = "readItems" -> DataIds
      [] opts.op = "readAssetArrayBuffer" -> {"buffer"}
      [] opts.op = "schemaSnapshot" -> SchemaIds
      [] opts.op = "schemaDiff" -> DiffIds
      [] opts.op = "schemaApply" -> {"applied"}

\* what one directus.request(options) may do: reject, or fulfil with a value
RequestOutcomes(opts) == {"reject", EmptyValue} \cup Responses(opts)

TruthyValues == DataIds \cup SchemaIds \cup DiffIds \cup {"buffer", "applied"}

----------------------------------------------------------------------------
(* Promises returned by directusRequest *)

\* new Promise(...) of line 60 together with the call's own arguments
NewCall(m, opts, expectValue, firstAttempt, parent) ==
    LET id == Len(m.calls) + 1
        rec == [ opts         |-> opts,
                 expectValue  |-> expectValue,
                 firstAttempt |-> firstAttempt,
                 root         |-> IF parent = 0 THEN id ELSE m.calls[parent].root,
                 delay        |-> 1000 * m.stagger,
                 phase        |-> "timer",
                 retry        |-> 0,
                 returned     |-> 0,
                 state        |-> "pending",
                 follows      |-> 0,
                 value        |-> Undefined,
                 reason       |-> "none",
                 outcome      |-> "none",
                 logged       |-> << >> ]
    IN  [calls |-> Append(m.calls, rec), stagger |-> m.stagger]

\* IncrementStagger leaving the counter as it is
IncrementStaggerSkipped(m) == m

\* requestStagger++ (line 97)
IncrementStagger(m) == [m EXCEPT !.stagger = m.stagger + 1]

\* directusRequest(directus, directusOptions, taskLabel, expectValue, firstAttempt):
\* the executor runs synchronously: setTimeout(..., 1000 * requestStagger), then
\* requestStagger++
directusRequest(m, opts, expectValue, firstAttempt, parent) ==
    IncrementStagger(NewCall(m, opts, expectValue, firstAttempt, parent))

\* the promise a promise is locked to, through resolve(promise)
RECURSIVE FollowsTo(_, _)
FollowsTo(cs, i) == IF cs[i].follows = 0 THEN i ELSE FollowsTo(cs, cs[i].follows)

\* a promise whose fate is still open to resolve()/reject()
Unsettled(cs, i) == cs[i].state = "pending" /\ cs[i].follows = 0

\* the promises 1..k of cs that are pending and locked to j (j itself among
\* them) become st
RECURSIVE SettleUpTo(_, _, _, _, _, _)
SettleUpTo(cs, k, j, st, v, r) ==
    IF k = 0 THEN cs
    ELSE SettleUpTo(IF cs[k].state = "pending" /\ FollowsTo(cs, k) = j
                    THEN [cs EXCEPT ![k].state = st, ![k].value = v, ![k].reason = r]
                    ELSE cs,
                    k - 1, j, st, v, r)

\* promise j becomes st; every pending promise locked to it settles alike
Settle(m, j, st, v, r) ==
    [m EXCEPT !.calls = SettleUpTo(m.calls, Len(m.calls), j, st, v, r)]

\* resolve(value): no effect on a promise already resolved, rejected or locked
Resolve(m, i, v) ==
    IF Unsettled(m.calls, i) THEN Settle(m, i, "resolved", v, "none") ELSE m

\* reject(err)
Reject(m, i, r) ==
    IF Unsettled(m.calls, i) THEN Settle(m, i, "rejected", Undefined, r) ELSE m

\* resolve(promise): lock promise i to promise j
ResolveWith(m, i, j) ==
    IF ~Unsettled(m.calls, i) THEN m
    ELSE IF m.calls[j].state = "pending"
         THEN [m EXCEPT !.calls[i].follows = j]
         ELSE Settle(m, i, m.calls[j].state, m.calls[j].value, m.calls[j].reason)

\* console.error / console.log lines of the callback of call i
Log(m, i, lines) == [m EXCEPT !.calls[i].logged = m.calls[i].logged \o lines]

SetPhase(m, i, p) == [m EXCEPT !.calls[i].phase = p]

----------------------------------------------------------------------------
(* The callback directusRequest hands to setTimeout (lines 61-96) *)

ErrorWhilst == <<"stderr", "Error whilst trying to">>
TryingAgainErr == <<"stderr", "Trying again...">>
TryingAgainOut == <<"stdout", "Trying again...">>
NoDataFound == <<"stderr", "No data found, but expectValue is set to true.">>
AlreadyTried == <<"stderr", "Already tried again">>
Successful == <<"stderr", "Successful">>
ErrorObject == <<"stderr", "err">>

\* AfterValue with line 73 written `if (!value)`: expectValue is not consulted
AfterValueIgnoringExpectValue(m, i, value) ==
    LET c == m.calls[i] IN
    IF Falsy(value)
    THEN IF c.firstAttempt
         THEN LET m1 == Log(m, i, <<NoDataFound, TryingAgainErr>>)
                  m2 == directusRequest(m1, c.opts, c.expectValue, FALSE, i)
                  m3 == ResolveWith(m2, i, Len(m2.calls))
              IN  SetPhase(Resolve(m3, i, value), i, "done")
         ELSE LET m1 == Log(m, i, <<NoDataFound, AlreadyTried, ErrorWhilst>>)
              IN  SetPhase(Reject(m1, i, "tryAgain"), i, "done")
    ELSE LET m1 == IF ~c.firstAttempt THEN Log(m, i, <<Successful>>) ELSE m
         IN  SetPhase(Resolve(m1, i, value), i, "done")

\* lines 73-86 with `value` in hand, and the catch block (lines 87-95) for the
\* Error thrown at line 80
AfterValue(m, i, value) ==
    LET c == m.calls[i] IN
    IF c.expectValue /\ Falsy(value)
    THEN IF c.firstAttempt
         THEN \* lines 74-77: resolve(directusRequest(...)); no return, so lines
              \* 83-86 run as well and resolve(value) finds the promise locked
              LET m1 == Log(m, i, <<NoDataFound, TryingAgainErr>>)
                  m2 == directusRequest(m1, c.opts, c.expectValue, FALSE, i)
                  m3 == ResolveWith(m2, i, Len(m2.calls))
              IN  SetPhase(Resolve(m3, i, value), i, "done")
         ELSE \* lines 79-80 throw; lines 88, 93: reject(e)
              LET m1 == Log(m, i, <<NoDataFound, AlreadyTried, ErrorWhilst>>)
              IN  SetPhase(Reject(m1, i, "tryAgain"), i, "done")
    ELSE \* lines 83-86
         LET m1 == IF ~c.firstAttempt THEN Log(m, i, <<Successful>>) ELSE m
         IN  SetPhase(Resolve(m1, i, value), i, "done")

\* directus.request rejected: the .catch handler of lines 63-72.  On a first
\* attempt the handler stays suspended in `await directusRequest(...)`; on a
\* retry it rejects, returns undefined, and line 73 goes on with value undefined
OnRequestRejected(m, i) ==
    LET c  == m.calls[i]
        m1 == Log(m, i, <<ErrorWhilst, ErrorObject>>)
    IN  IF c.firstAttempt
        THEN LET m2 == directusRequest(Log(m1, i, <<TryingAgainErr>>),
                                       c.opts, c.expectValue, FALSE, i)
             IN  [SetPhase(m2, i, "awaitRetry") EXCEPT !.calls[i].retry = Len(m2.calls)]
        ELSE AfterValue(Reject(m1, i, "RequestError"), i, Undefined)

\* the promise awaited at line 68 has settled.  Fulfilled: resolve(its value),
\* the handler returns undefined and line 73 goes on.  Rejected: the await
\* throws inside the handler, the .catch() promise rejects, the await of line
\* 63 throws and the catch block of lines 87-95 runs
OnRetrySettled(m, i) ==
    LET c == m.calls[i]
        r == m.calls[c.retry]
    IN  IF r.state = "resolved"
        THEN AfterValue(Resolve(m, i, r.value), i, Undefined)
        ELSE LET m1 == Log(m, i, <<ErrorWhilst>>)
             IN  IF c.firstAttempt
                 THEN \* line 91: the returned promise is not resolve()d into
                      \* the wrapper's own promise; it becomes the result of
                      \* the async timer callback, which nothing awaits
                      LET m2 == directusRequest(Log(m1, i, <<TryingAgainOut>>),
                                                c.opts, c.expectValue, FALSE, i)
                      IN  [SetPhase(m2, i, "done")
                              EXCEPT !.calls[i].returned = Len(m2.calls)]
                 ELSE SetPhase(Reject(m1, i, r.reason), i, "done")

----------------------------------------------------------------------------
(* Actions of the wrapper *)

Machine == [calls |-> calls, stagger |-> requestStagger]

\* the wrapper's own state becomes m; nothing else changes
Becomes(m) ==
    /\ calls' = m.calls
    /\ requestStagger' = m.stagger
    /\ UNCHANGED <<resolveVars, imageVars, flowVars>>

\* setTimeout expires and directus.request(directusOptions) is issued.  A later
\* call is set later and with a longer delay, so timers expire in call order
TimerFires(i) ==
    /\ calls[i].phase = "timer"
    /\ \A j \in 1..(i - 1) : calls[j].phase # "timer"
    /\ Becomes(SetPhase(Machine, i, "inflight"))
    /\ UNCHANGED budget

\* the CMS answers request i
RequestCompletes(i, o) ==
    /\ calls[i].phase = "inflight"
    /\ o \in {"reject", EmptyValue} => budget > 0
    /\ budget' = IF o \in {"reject", EmptyValue} THEN budget - 1 ELSE budget
    /\ LET m == [Machine EXCEPT !.calls[i].outcome = o]
       IN  Becomes(IF o = "reject" THEN OnRequestRejected(m, i)
                   ELSE AfterValue(m, i, o))

\* the retry awaited by the .catch handler of call i has settled
RetrySettles(i) ==
    /\ calls[i].phase = "awaitRetry"
    /\ calls[calls[i].retry].state # "pending"
    /\ Becomes(OnRetrySettled(Machine, i))
    /\ UNCHANGED budget

\* the Node.js process has not ended
Running == ~inv.exited

WrapperStep ==
    /\ Running
    /\ \E i \in DOMAIN calls :
          \/ TimerFires(i)
          \/ \E o \in RequestOutcomes(calls[i].opts) : RequestCompletes(i, o)
          \/ RetrySettles(i)

----------------------------------------------------------------------------
(* The invocation before module.exports is called *)

\* missing config keys, environment variables that are not set
Unset ==
    [cmsUrl |-> JsUndefined, staticToken |-> JsUndefined,
     collectionName |-> JsUndefined, collectionOutput |-> JsUndefined,
     assetsOutput |-> JsUndefined, encoding |-> JsUndefined,
     prettify |-> JsUndefined, backupSchema |-> JsUndefined,
     restoreSchema |-> JsUndefined, applySchema |-> JsUndefined,
     forceSchema |-> JsUndefined]

NoInput == [explicit |-> Unset, configFile |-> "absent", config |-> Unset, env |-> Unset]

IdleInvocation ==
    [pc |-> "idle", settings |-> Unset, names |-> << >>, client |-> FALSE,
     awaiting |-> 0, thrown |-> "none", console |-> << >>, diff |-> NoEntries,
     exited |-> FALSE]

\* module.exports has not been called
FlowIdle ==
    /\ input = NoInput
    /\ inv = IdleInvocation
    /\ tasks = << >>
    /\ assets = << >>
    /\ files = << >>
    /\ callbacks = << >>

----------------------------------------------------------------------------
(* SpecRequest: the wrapper on its own, called by an arbitrary caller *)

SampleOptions == {ReadItems(<<"A">>, JsUndefined), ReadAssetArrayBuffer("a1")}

TopCalls == {i \in DOMAIN calls : calls[i].root = i}

\* some caller calls directusRequest(directus, options, label, expectValue)
CallDirectusRequest ==
    /\ Cardinality(TopCalls) < MaxTopCalls
    /\ \E opts \in SampleOptions, expectValue \in BOOLEAN :
          Becomes(directusRequest(Machine, opts, expectValue, TRUE, 0))
    /\ UNCHANGED budget

\* the variables of SpecImages, where they are not used
ImagesIdle ==
    /\ searched = [k |-> "scalar", e |-> << >>, x |-> "none"]
    /\ found = [done |-> FALSE, images |-> << >>]

\* the variables of SpecResolve, where they are not used
ResolveIdle ==
    /\ sources = [setting |-> "none", explicit |-> JsUndefined,
                  config |-> JsUndefined, env |-> JsUndefined]
    /\ resolved = [done |-> FALSE, value |-> JsUndefined]
    /\ ImagesIdle

InitRequest ==
    /\ requestStagger = 0
    /\ calls = << >>
    /\ budget = MaxRequestFaults
    /\ ResolveIdle
    /\ FlowIdle

NextRequest ==
    \/ CallDirectusRequest
    \/ WrapperStep

SpecRequest == InitRequest /\ [][NextRequest]_vars

----------------------------------------------------------------------------
(* SpecResolve: lines 192-200 applied to one setting and its three sources *)

ExplicitText == <<"x">>
ConfigText == <<"c">>
EnvText == <<"e">>

\* a parameter left out takes its default "" (lines 164-173)
ExplicitSamples == {EmptyString, Str(ExplicitText), JsNull}
\* config["x"]: a missing key, null, "", or a text
ConfigSamples == {JsUndefined, JsNull, EmptyString, Str(ConfigText)}
\* env.X: not in the environment, empty, or a text
EnvSamples == {JsUndefined, EmptyString, Str(EnvText)}

InitResolve ==
    /\ requestStagger = 0
    /\ calls = << >>
    /\ budget = 0
    /\ FlowIdle
    /\ ImagesIdle
    /\ sources \in [setting : ChainSettings, explicit : ExplicitSamples,
                     config : ConfigSamples, env : EnvSamples]
    /\ resolved = [done |-> FALSE, value |-> JsUndefined]

\* the assignment of the setting's line among lines 192-200
ResolveOne ==
    /\ ~resolved.done
    /\ resolved' = [done |-> TRUE,
                    value |-> ResolveSetting(sources.setting, sources.explicit,
                                             sources.config, sources.env)]
    /\ UNCHANGED <<sources, imageVars, wrapperVars, flowVars>>

NextResolve == ResolveOne

SpecResolve == InitResolve /\ [][NextResolve]_vars

\* the sources of the setting in precedence order
Precedence == <<sources.explicit, sources.config, sources.env>>

SetSources == {k \in 1..3 : ~IsFalsy(Precedence[k])}

\* C1: each of the eight settings resolves to the first set (non-empty) value
\* in the order explicit parameter, config file, environment, built-in
\* default: with all three sources set the explicit value wins, and with all
\* three unset the result is exactly the built-in default
\* ({{collectionName}}.json, {{filename}}, utf-8, null for the schema paths).
C1_FirstSetValueWins ==
    resolved.done =>
        /\ SetSources # {} =>
               \E k \in SetSources :
                   /\ \A j \in SetSources : k <= j
                   /\ resolved.value = Precedence[k]
        /\ SetSources = {1, 2, 3} => resolved.value = Str(ExplicitText)
        /\ SetSources = {} =>
               /\ sources.setting = "collectionOutput" =>
                      resolved.value = DefaultCollectionOutput
               /\ sources.setting = "assetsOutput" =>
                      resolved.value = DefaultAssetsOutput
               /\ sources.setting = "encoding" => resolved.value = DefaultEncoding
               /\ sources.setting \in {"backupSchema", "restoreSchema"} =>
                      resolved.value = JsNull
               /\ ~HasDefault(sources.setting) => IsFalsy(resolved.value)

\* all three sources hold distinct texts and the setting is resolved
C1_Witness ==
    /\ resolved.done
    /\ SetSources = {1, 2, 3}
    /\ sources.explicit # sources.config
    /\ sources.config # sources.env
    /\ resolved.value = sources.explicit

----------------------------------------------------------------------------
(* Item data and findImagesInDirectusData, lines 44-56 *)

\* values as the function sees them: plain objects and arrays with their
\* entries in Object.entries order, anything else a scalar
Obj(entries) == [k |-> "object", e |-> entries, x |-> << >>]
List(entries) == [k |-> "array", e |-> entries, x |-> << >>]
Scalar(x) == [k |-> "scalar", e |-> << >>, x |-> x]
Entry(key, v) == [key |-> key, v |-> v]

HasKey(object, key) == \E n \in DOMAIN object.e : object.e[n].key = key
Get(object, key) == object.e[CHOOSE n \in DOMAIN object.e : object.e[n].key = key].v.x

\* IsPlainObject holding of no value: nothing is descended into
IsPlainObjectNever(value) == FALSE

\* line 51: value && value.constructor === Object
IsPlainObject(value) == value.k = "object"

RECURSIVE findImagesInDirectusData(_, _)
RECURSIVE FindInEntries(_, _, _)

\* lines 50-54: the loop over Object.entries(object), from entry n on
FindInEntries(object, n, foundImages) ==
    IF n > Len(object.e) THEN foundImages
    ELSE FindInEntries(object, n + 1,
             IF IsPlainObject(object.e[n].v)
             THEN findImagesInDirectusData(object.e[n].v, foundImages)
             ELSE foundImages)

findImagesInDirectusData(object, foundImages) ==
    FindInEntries(object, 1,
        IF HasKey(object, "id") /\ HasKey(object, "filename_download")
        THEN Append(foundImages, [id |-> Get(object, "id"),
                                  filename |-> Get(object, "filename_download")])
        ELSE foundImages)

PictureName == <<"p">>

\* the data behind each data id: d0 = [{id: 1}],
\* d1 = [{id: 1, image: {id: "a1", filename_download: "p"}}]
DataOf(d) ==
    CASE d = "d0" -> List(<<Entry("0", Obj(<<Entry("id", Scalar("1"))>>))>>)
      [] d = "d1" -> List(<<Entry("0", Obj(<<
                         Entry("id", Scalar("1")),
                         Entry("image", Obj(<<
                             Entry("id", Scalar("a1")),
                             Entry("filename_download", Scalar(PictureName))>>))>>))>>)

----------------------------------------------------------------------------
(* Schema snapshots and schema diffs *)

\* KEYS_TO_FILTER, line 7
KEYS_TO_FILTER == <<"collections", "fields", "relations">>

A == <<"A">>
B == <<"B">>
C == <<"C">>

SchemaEntry(collection, name) == [collection |-> collection, name |-> name, diff |-> << >>]
DiffEntry(collection, name, diff) == [collection |-> collection, name |-> name, diff |-> diff]
Attr(key, v) == [key |-> key, v |-> v]

\* the snapshot behind a schema id: collections A, B, C with their fields and
\* two relations
SchemaOf(id) ==
    [collections |-> <<SchemaEntry(A, "A"), SchemaEntry(B, "B"), SchemaEntry(C, "C")>>,
     fields |-> <<SchemaEntry(A, "id"), SchemaEntry(B, "id"), SchemaEntry(A, "name"),
                  SchemaEntry(C, "id")>>,
     relations |-> <<SchemaEntry(C, "a"), SchemaEntry(A, "b")>>]

\* schemaDiffData.diff behind a diff id
DiffOf(id) ==
    [collections |-> <<DiffEntry(A, "A", <<<<Attr("kind", "N"), Attr("rhs", "r")>>>>),
                       DiffEntry(B, "B", <<<<Attr("kind", "D"), Attr("lhs", "l")>>>>),
                       DiffEntry(C, "C", <<<<Attr("kind", "X")>>>>)>>,
     fields |-> <<DiffEntry(B, "id", <<<<Attr("kind", "E"), Attr("path", "p"),
                                         Attr("lhs", "l"), Attr("rhs", "r")>>>>),
                  DiffEntry(A, "name", <<<<Attr("kind", "N"), Attr("rhs", "r")>>>>),
                  DiffEntry(C, "id", <<<<Attr("kind", "D"), Attr("lhs", "l")>>>>)>>,
     relations |-> <<DiffEntry(C, "a", <<<<Attr("kind", "N"), Attr("rhs", "r")>>>>),
                     DiffEntry(A, "b", <<<<Attr("kind", "D"), Attr("lhs", "l")>>>>)>>]

\* FilterEntries keeping every entry
FilterEntriesKeepingAll(entries, collectionNameArray) == entries

\* entries.filter((entry) => collectionNameArray.includes(entry.collection)),
\* lines 247 and 305
FilterEntries(entries, collectionNameArray) ==
    SelectSeq(entries, LAMBDA entry : ArrayIncludes(collectionNameArray, entry.collection))

\* KEYS_TO_FILTER.forEach(keyToFilter => ...), lines 246-248 and 304-306
FilterSchema(schema, collectionNameArray) ==
    [collections |-> FilterEntries(schema.collections, collectionNameArray),
     fields |-> FilterEntries(schema.fields, collectionNameArray),
     relations |-> FilterEntries(schema.relations, collectionNameArray)]

----------------------------------------------------------------------------
(* prettify: _returnFirstBooleanOrNumber (lines 13-42) and lines 182-184, 224-230 *)

IsDigit(ch) == ch \in {"0", "1", "2", "3", "4", "5", "6", "7", "8", "9"}

DigitValue(ch) ==
    CASE ch = "0" -> 0 [] ch = "1" -> 1 [] ch = "2" -> 2 [] ch = "3" -> 3
      [] ch = "4" -> 4 [] ch = "5" -> 5 [] ch = "6" -> 6 [] ch = "7" -> 7
      [] ch = "8" -> 8 [] ch = "9" -> 9

RECURSIVE ParseDigits(_, _)
ParseDigits(chars, acc) ==
    IF chars = << >> \/ ~IsDigit(Head(chars)) THEN acc
    ELSE ParseDigits(Tail(chars), 10 * acc + DigitValue(Head(chars)))

\* parseInt(text): the leading integer of the text, NaN when it has none;
\* it never throws (texts here carry no leading blanks and no 0x prefix)
ParseInt(chars) ==
    IF chars # << >> /\ IsDigit(Head(chars)) THEN Num(ParseDigits(chars, 0))
    ELSE IF Len(chars) >= 2 /\ Head(chars) = "-" /\ IsDigit(chars[2])
         THEN Num(0 - ParseDigits(Tail(chars), 0))
         ELSE JsNaN

TextTrue == <<"t", "r", "u", "e">>
TextFalse == <<"f", "a", "l", "s", "e">>

\* _returnFirstBooleanOrNumber(...args)
RECURSIVE returnFirstBooleanOrNumber(_)
returnFirstBooleanOrNumber(args) ==
    IF args = << >> THEN JsUndefined
    ELSE LET arg == Head(args) IN
         CASE arg.t \in {"null", "undefined"} -> returnFirstBooleanOrNumber(Tail(args))
           [] arg.t \in {"boolean", "number", "NaN"} -> arg
           [] arg.t = "string" ->
                  IF arg.s = TextTrue THEN Bool(TRUE)
                  ELSE IF arg.s = TextFalse THEN Bool(FALSE)
                  ELSE ParseInt(arg.s)
           [] OTHER -> returnFirstBooleanOrNumber(Tail(args))

\* lines 182-184, 198 and 224-230: the `space` handed to JSON.stringify
ResolvePrettify(explicit, config, env) ==
    LET prettify == returnFirstBooleanOrNumber(
                        <<IF explicit = Num(0 - 1) THEN JsNull ELSE explicit,
                          config, env, Bool(TRUE)>>)
    IN  IF ~IsFalsy(prettify)
        THEN IF prettify.t = "boolean" THEN Num(4) ELSE prettify
        ELSE Num(0)

----------------------------------------------------------------------------
(* The invocation's inputs and its settings, lines 163-202 *)

\* NO_WRITE, line 8
NO_WRITE == <<"N", "O", "_", "W", "R", "I", "T", "E">>

\* the parameter defaults of lines 164-175, with a CMS url and a token given
DefaultParams ==
    [cmsUrl |-> Str(<<"u">>), staticToken |-> Str(<<"k">>),
     collectionName |-> EmptyString, collectionOutput |-> EmptyString,
     assetsOutput |-> EmptyString, encoding |-> EmptyString,
     prettify |-> Num(0 - 1), backupSchema |-> EmptyString,
     restoreSchema |-> EmptyString, applySchema |-> Bool(FALSE),
     forceSchema |-> Bool(FALSE)]

\* lines 192-202
ResolveSettings(explicit, config, env) ==
    [cmsUrl |-> ResolveSetting("cmsUrl", explicit.cmsUrl, config.cmsUrl, env.cmsUrl),
     staticToken |-> ResolveSetting("staticToken", explicit.staticToken,
                                    config.staticToken, env.staticToken),
     collectionName |-> ResolveSetting("collectionName", explicit.collectionName,
                                       config.collectionName, env.collectionName),
     collectionOutput |-> ResolveSetting("collectionOutput", explicit.collectionOutput,
                                         config.collectionOutput, env.collectionOutput),
     assetsOutput |-> ResolveSetting("assetsOutput", explicit.assetsOutput,
                                     config.assetsOutput, env.assetsOutput),
     encoding |-> ResolveSetting("encoding", explicit.encoding, config.encoding,
                                 env.encoding),
     prettify |-> ResolvePrettify(explicit.prettify, config.prettify, env.prettify),
     backupSchema |-> ResolveSetting("backupSchema", explicit.backupSchema,
                                     config.backupSchema, env.backupSchema),
     restoreSchema |-> ResolveSetting("restoreSchema", explicit.restoreSchema,
                                      config.restoreSchema, env.restoreSchema),
     applySchema |-> Or(Or(Or(explicit.applySchema, config.applySchema),
                           env.applySchema), Bool(FALSE)),
     forceSchema |-> Or(Or(Or(explicit.forceSchema, config.forceSchema),
                           env.forceSchema), Bool(FALSE))]

----------------------------------------------------------------------------
(* module.exports up to its first await, lines 179-319 *)

Line(stream, text, arg) == [stream |-> stream, text |-> text, arg |-> arg]

NoCollectionNameError ==
    Line("stderr", "ERROR: directus-to-data requires at least one collection name to be defined", << >>)
ClientError == Line("stderr", "Error whilst trying to create Directus SDK client", << >>)

\* RestoreRequested with the branch of line 241 never taken
RestoreRequestedNever(restoreSchema) == FALSE

\* line 241: if (restoreSchema)
RestoreRequested(restoreSchema) == ~IsFalsy(restoreSchema)

\* BackupRequested with the branch of line 302 taken whenever a client exists
BackupRequestedAlways(backupSchema) == TRUE

\* line 302: if (backupSchema)
BackupRequested(backupSchema) == ~IsFalsy(backupSchema)

\* ApplyRequested with the test of line 295 always passing
ApplyRequestedAlways(applySchema) == TRUE

\* line 295: if (applySchema)
ApplyRequested(applySchema) == ~IsFalsy(applySchema)

\* MissingCollectionName with the check of line 204 left out
MissingCollectionNameUnchecked(collectionName) == FALSE

\* line 204: if (!collectionName)
MissingCollectionName(collectionName) == IsFalsy(collectionName)

\* lines 311-319 for the names from position n on: each callback of the forEach
\* runs up to its `await directusRequest(...)`, one after the other
RECURSIVE ForEachCollection(_, _, _)
ForEachCollection(st, names, n) ==
    IF n > Len(names) THEN st
    ELSE LET sel == SelectorOf(names[n])
             m2 == directusRequest(st.m, ReadItems(sel.collection, sel.fields),
                                   FALSE, TRUE, 0)
             task == [raw |-> names[n], collection |-> sel.collection,
                      fields |-> sel.fields, call |-> Len(m2.calls),
                      pc |-> "awaitItems"]
         IN  ForEachCollection([st EXCEPT !.m = m2, !.tasks = Append(st.tasks, task)],
                               names, n + 1)

\* the file the restore path reads at line 242
SnapshotFile == "snapshotFile"

\* lines 179-319, run until the function returns, throws or reaches an await.
\* fault names the synchronous call that throws in this run, if any
InvokeResult(fault) ==
    LET config == IF input.configFile = "valid" THEN input.config ELSE Unset
        st == ResolveSettings(input.explicit, config, input.env)
        names == NormalizeCollectionName(st.collectionName)
        base == [inv |-> inv, m |-> Machine, tasks |-> tasks, fault |-> "none"]
        ready == [inv EXCEPT !.settings = st, !.names = names, !.client = TRUE]
    IN  IF input.configFile = "malformed"
        THEN \* line 190: JSON.parse throws
             [base EXCEPT !.inv.pc = "threw", !.inv.thrown = "SyntaxError"]
        ELSE IF MissingCollectionName(st.collectionName)
        THEN \* lines 204-207
             [base EXCEPT !.inv.pc = "returned", !.inv.settings = st,
                          !.inv.console = <<NoCollectionNameError>>]
        ELSE IF fault = "createDirectus"
        THEN \* lines 234-239
             [base EXCEPT !.inv.pc = "threw", !.inv.thrown = "ClientError",
                          !.inv.settings = st, !.inv.names = names,
                          !.inv.console = <<ClientError>>, !.fault = fault]
        ELSE IF RestoreRequested(st.restoreSchema)
        THEN IF fault = "readFileSync"
             THEN \* line 242
                  [base EXCEPT !.inv = [ready EXCEPT !.pc = "threw",
                                                     !.thrown = "ReadError"],
                               !.fault = fault]
             ELSE \* line 243
                  LET m2 == directusRequest(Machine, SchemaDiff(SnapshotFile, st.forceSchema),
                                            FALSE, TRUE, 0)
                  IN  [base EXCEPT !.inv = [ready EXCEPT !.pc = "awaitDiff",
                                                         !.awaiting = Len(m2.calls)],
                                   !.m = m2]
        ELSE IF BackupRequested(st.backupSchema)
        THEN \* line 303
             LET m2 == directusRequest(Machine, SchemaSnapshot, FALSE, TRUE, 0)
             IN  [base EXCEPT !.inv = [ready EXCEPT !.pc = "awaitSnapshot",
                                                    !.awaiting = Len(m2.calls)],
                              !.m = m2]
        ELSE \* lines 311-343: the forEach returns, and so does the function
             LET f == ForEachCollection(base, names, 1)
             IN  [f EXCEPT !.inv = [ready EXCEPT !.pc = "returned"]]

SyncFaults == {"none", "createDirectus", "readFileSync"}

\* module.exports(options) is called
Invoke ==
    /\ inv.pc = "idle"
    /\ \E fault \in SyncFaults :
          LET r == InvokeResult(fault) IN
          /\ r.fault = fault
          /\ fault # "none" => budget > 0
          /\ budget' = IF fault = "none" THEN budget ELSE budget - 1
          /\ inv' = r.inv
          /\ tasks' = r.tasks
          /\ calls' = r.m.calls
          /\ requestStagger' = r.m.stagger
    /\ UNCHANGED <<input, assets, files, callbacks, resolveVars, imageVars>>

----------------------------------------------------------------------------
(* The schema paths after their awaits, lines 243-309 *)

\* lines 254-268
KindLabel(kind) ==
    CASE kind = "N" -> "NEW"
      [] kind = "E" -> "EDIT"
      [] kind = "D" -> "DELETE"
      [] OTHER -> "Unknown"

\* lines 272-288
KeyTitle(key) ==
    CASE key = "path" -> "path"
      [] key = "lhs" -> "Old value (lhs)"
      [] key = "rhs" -> "New value (rhs)"
      [] OTHER -> key

\* lines 270-290: one line per key of the difference other than kind
RECURSIVE ReportKeys(_, _)
ReportKeys(difference, n) ==
    IF n > Len(difference) THEN << >>
    ELSE (IF difference[n].key = "kind" THEN << >>
          ELSE <<Line("stdout", KeyTitle(difference[n].key), <<difference[n].v>>)>>)
         \o ReportKeys(difference, n + 1)

KindOf(difference) ==
    IF \E n \in DOMAIN difference : difference[n].key = "kind"
    THEN difference[CHOOSE n \in DOMAIN difference : difference[n].key = "kind"].v
    ELSE "undefined"

\* lines 253-291
RECURSIVE ReportDifferences(_, _)
ReportDifferences(diff, n) ==
    IF n > Len(diff) THEN << >>
    ELSE <<Line("stdout", KindLabel(KindOf(diff[n])), <<KindOf(diff[n])>>)>>
         \o ReportKeys(diff[n], 1) \o ReportDifferences(diff, n + 1)

\* lines 251-293
RECURSIVE ReportEntries(_, _)
ReportEntries(entries, n) ==
    IF n > Len(entries) THEN << >>
    ELSE <<Line("stdout", "--- collection ---", entries[n].collection)>>
         \o ReportDifferences(entries[n].diff, 1) \o ReportEntries(entries, n + 1)

\* lines 250-294
Report(diff) ==
    ReportEntries(diff.collections, 1) \o ReportEntries(diff.fields, 1)
        \o ReportEntries(diff.relations, 1)

ApplyingSchema == Line("stdout", "Applying schema...", << >>)

\* the call's promise, awaited by module.exports, has settled
Awaited(pc) ==
    /\ inv.pc = pc
    /\ calls[inv.awaiting].state # "pending"

\* module.exports' own promise rejects with what the await threw
Throws(reason) == [inv EXCEPT !.pc = "threw", !.thrown = reason]

\* line 243 resumes: lines 246-299
DiffSettles ==
    /\ Running
    /\ Awaited("awaitDiff")
    /\ LET c == calls[inv.awaiting]
           diff == FilterSchema(DiffOf(c.value), inv.names)
           reported == [inv EXCEPT !.diff = diff, !.console = @ \o Report(diff)]
           m2 == directusRequest(Machine, SchemaApply(diff), FALSE, TRUE, 0)
       IN  IF c.state = "rejected"
           THEN inv' = Throws(c.reason) /\ UNCHANGED <<calls, requestStagger>>
           ELSE IF Falsy(c.value)
           THEN \* line 247: schemaDiffData.diff of undefined
                inv' = Throws("TypeError") /\ UNCHANGED <<calls, requestStagger>>
           ELSE IF ApplyRequested(inv.settings.applySchema)
           THEN /\ inv' = [reported EXCEPT !.pc = "awaitApply",
                                           !.awaiting = Len(m2.calls),
                                           !.console = @ \o <<ApplyingSchema>>]
                /\ calls' = m2.calls
                /\ requestStagger' = m2.stagger
           ELSE /\ inv' = [reported EXCEPT !.pc = "returned"]
                /\ UNCHANGED <<calls, requestStagger>>
    /\ UNCHANGED <<budget, input, tasks, assets, files, callbacks, resolveVars, imageVars>>

\* line 297 resumes: console.log of the result, then return
ApplySettles ==
    /\ Running
    /\ Awaited("awaitApply")
    /\ LET c == calls[inv.awaiting]
       IN  inv' = IF c.state = "rejected" THEN Throws(c.reason)
                  ELSE [inv EXCEPT !.pc = "returned",
                                   !.console = @ \o <<Line("stdout", "result", <<c.value>>)>>]
    /\ UNCHANGED <<wrapperVars, input, tasks, assets, files, callbacks, resolveVars, imageVars>>

\* a file handed to fs: the JSON of a collection, an asset, or a schema backup
File(path, kind, data, schema, space, status) ==
    [path |-> path, kind |-> kind, data |-> data, schema |-> schema,
     space |-> space, status |-> status]

\* line 303 resumes: lines 304-308, then the forEach of lines 311-343
SnapshotAfter(fault) ==
    LET c == calls[inv.awaiting]
        schema == FilterSchema(SchemaOf(c.value), inv.names)
        base == [inv |-> inv, m |-> Machine, tasks |-> tasks, files |-> files,
                 fault |-> "none"]
        written == [base EXCEPT !.files = Append(@,
                        File(inv.settings.backupSchema.s, "schema", "none", schema,
                             inv.settings.prettify.n, "written"))]
    IN  IF c.state = "rejected" THEN [base EXCEPT !.inv = Throws(c.reason)]
        ELSE IF Falsy(c.value)
        THEN \* line 305: schema[keyToFilter] of undefined
             [base EXCEPT !.inv = Throws("TypeError")]
        ELSE IF fault = "writeFileSync"
        THEN [base EXCEPT !.inv = Throws("WriteError"), !.fault = fault]
        ELSE [ForEachCollection(written, inv.names, 1) EXCEPT !.inv.pc = "returned"]

SnapshotSettles ==
    /\ Running
    /\ Awaited("awaitSnapshot")
    /\ \E fault \in {"none", "writeFileSync"} :
          LET r == SnapshotAfter(fault) IN
          /\ r.fault = fault
          /\ fault # "none" => budget > 0
          /\ budget' = IF fault = "none" THEN budget ELSE budget - 1
          /\ inv' = r.inv
          /\ tasks' = r.tasks
          /\ files' = r.files
          /\ calls' = r.m.calls
          /\ requestStagger' = r.m.stagger
    /\ UNCHANGED <<input, assets, callbacks, resolveVars, imageVars>>

----------------------------------------------------------------------------
(* The callbacks of the two forEach loops after their awaits, lines 319-343 *)

\* lines 329-332 for the images from position n on, in task t
RECURSIVE ForEachImage(_, _, _, _)
ForEachImage(st, t, images, n) ==
    IF n > Len(images) THEN st
    ELSE LET filename == Replace(inv.settings.assetsOutput.s, FilenameTemplate,
                                 images[n].filename)
             m2 == directusRequest(st.m, ReadAssetArrayBuffer(images[n].id),
                                   TRUE, TRUE, 0)
             asset == [task |-> t, id |-> images[n].id, filename |-> filename,
                       call |-> Len(m2.calls), pc |-> "awaitAsset"]
         IN  ForEachImage([st EXCEPT !.m = m2, !.assets = Append(st.assets, asset)],
                          t, images, n + 1)

\* line 319 resumes in task t: lines 321-342
ItemsAfter(t, fault) ==
    LET task == tasks[t]
        c == calls[task.call]
        data == c.value
        st == inv.settings
        base == [m |-> Machine, tasks |-> tasks, assets |-> assets, files |-> files,
                 callbacks |-> callbacks, fault |-> "none"]
        writes == st.collectionOutput # Str(NO_WRITE)
        finalCollectionOutput ==
            Replace(st.collectionOutput.s, CollectionNameTemplate, task.collection)
        written == IF writes
                   THEN [base EXCEPT !.files = Append(@,
                            File(finalCollectionOutput, "collection", data, NoEntries,
                                 st.prettify.n, "pending"))]
                   ELSE base
        downloads == st.assetsOutput # Str(NO_WRITE)
    IN  IF c.state = "rejected"
        THEN \* the await throws: the callback's promise rejects, nobody handles it
             [base EXCEPT !.tasks[t].pc = "rejected"]
        ELSE IF writes /\ fault = "mkdirSync"
        THEN [base EXCEPT !.tasks[t].pc = "rejected", !.fault = fault]
        ELSE IF downloads /\ Falsy(data)
        THEN \* line 45: Object.keys(undefined) throws
             [written EXCEPT !.tasks[t].pc = "rejected"]
        ELSE [(IF downloads
               THEN ForEachImage(written, t,
                                 findImagesInDirectusData(DataOf(data), << >>), 1)
               ELSE written)
              EXCEPT !.tasks[t].pc = "done",
                     !.callbacks = Append(@, [task |-> t, data |-> data])]

ItemsSettles(t) ==
    /\ Running
    /\ tasks[t].pc = "awaitItems"
    /\ calls[tasks[t].call].state # "pending"
    /\ \E fault \in {"none", "mkdirSync"} :
          LET r == ItemsAfter(t, fault) IN
          /\ r.fault = fault
          /\ fault # "none" => budget > 0
          /\ budget' = IF fault = "none" THEN budget ELSE budget - 1
          /\ tasks' = r.tasks
          /\ assets' = r.assets
          /\ files' = r.files
          /\ callbacks' = r.callbacks
          /\ calls' = r.m.calls
          /\ requestStagger' = r.m.stagger
    /\ UNCHANGED <<input, inv, resolveVars, imageVars>>

ErrorWriting == Line("stderr", "Error writing", << >>)

\* line 332 resumes for asset a: lines 333-338
AssetSettles(a) ==
    /\ Running
    /\ assets[a].pc = "awaitAsset"
    /\ calls[assets[a].call].state # "pending"
    /\ LET c == calls[assets[a].call]
       IN  IF c.state = "rejected"
           THEN /\ assets' = [assets EXCEPT ![a].pc = "rejected"]
                /\ UNCHANGED <<files, inv>>
           ELSE IF Falsy(c.value)
           THEN \* Buffer.from(undefined) throws inside the try
                /\ assets' = [assets EXCEPT ![a].pc = "rejected"]
                /\ inv' = [inv EXCEPT !.console = Append(@, ErrorWriting)]
                /\ UNCHANGED files
           ELSE /\ assets' = [assets EXCEPT ![a].pc = "done"]
                /\ files' = Append(files, File(assets[a].filename, "asset", c.value,
                                               NoEntries, 0, "pending"))
                /\ UNCHANGED inv
    /\ UNCHANGED <<wrapperVars, input, tasks, callbacks, resolveVars, imageVars>>

WriteError == Line("stderr", "err", << >>)

\* the promise of fs/promises writeFile settles.  A failed collection write
\* is logged by _handleError (line 324); a failed asset write is not handled
WriteCompletes(f, ok) ==
    /\ Running
    /\ files[f].status = "pending"
    /\ ~ok => budget > 0
    /\ budget' = IF ok THEN budget ELSE budget - 1
    /\ files' = [files EXCEPT ![f].status = IF ok THEN "written" ELSE "failed"]
    /\ inv' = IF ~ok /\ files[f].kind = "collection"
              THEN [inv EXCEPT !.console = Append(@, WriteError)]
              ELSE inv
    /\ UNCHANGED <<calls, requestStagger, input, tasks, assets, callbacks, resolveVars, imageVars>>

\* a rejected promise that no handler is attached to: a forEach callback that
\* threw (lines 311, 329), an asset write that failed (line 334), or the
\* promise of a timer callback that returned a rejected re-attempt (line 91)
UnhandledRejection ==
    \/ \E t \in DOMAIN tasks : tasks[t].pc = "rejected"
    \/ \E a \in DOMAIN assets : assets[a].pc = "rejected"
    \/ \E f \in DOMAIN files : files[f].kind = "asset" /\ files[f].status = "failed"
    \/ \E i \in DOMAIN calls :
          calls[i].returned # 0 /\ calls[calls[i].returned].state = "rejected"

\* Node.js raises an unhandled rejection as an uncaught exception and ends
\* the process, unless the embedding program handles 'unhandledRejection' or
\* runs with --unhandled-rejections=warn: either may happen
ProcessExits ==
    /\ Running
    /\ UnhandledRejection
    /\ inv' = [inv EXCEPT !.exited = TRUE]
    /\ UNCHANGED <<wrapperVars, resolveVars, imageVars, input, tasks, assets, files, callbacks>>

----------------------------------------------------------------------------
(* Spec: one invocation of module.exports against a CMS and a file system *)

\* raw names: A, A:i, A:i:n and ["A","B"] as text
NameWithSelector == <<"A", ":", "i">>
NameWithTwoColons == <<"A", ":", "i", ":", "n">>
JsonArrayText == <<"[", Quote, "A", Quote, ",", Quote, "B", Quote, "]">>

NameSamples ==
    {Str(A), Str(NameWithSelector), Str(NameWithTwoColons), Str(JsonArrayText),
     Arr(<<A, C>>), Arr(<<NameWithSelector, B>>)}

\* collectionOutput: left out, NO_WRITE, a path without placeholder, and a
\* template that holds the placeholder twice
FixedPath == <<"o">>
TwiceTemplate == CollectionNameTemplate \o <<"/">> \o CollectionNameTemplate

CollectionOutputSamples ==
    {EmptyString, Str(NO_WRITE), Str(FixedPath), Str(TwiceTemplate)}

AssetsOutputSamples == {EmptyString, Str(NO_WRITE)}

RestoreFile == <<"r">>
BackupFile == <<"b">>

FetchInput(name, collectionOutput, assetsOutput) ==
    [explicit |-> [DefaultParams EXCEPT !.collectionName = name,
                                        !.collectionOutput = collectionOutput,
                                        !.assetsOutput = assetsOutput],
     configFile |-> "absent", config |-> Unset, env |-> Unset]

\* a plain fetch, configured by parameters alone: every name with the default
\* output and no assets, every output with two collections, and asset
\* downloads with one collection and with two
FetchInputs ==
    {FetchInput(name, EmptyString, Str(NO_WRITE)) : name \in NameSamples}
    \cup {FetchInput(Arr(<<A, C>>), collectionOutput, Str(NO_WRITE)) :
              collectionOutput \in CollectionOutputSamples}
    \cup {FetchInput(Str(A), collectionOutput, assetsOutput) :
              collectionOutput \in {EmptyString, Str(NO_WRITE)},
              assetsOutput \in AssetsOutputSamples}
    \cup {FetchInput(Arr(<<A, C>>), Str(NO_WRITE), EmptyString)}

SchemaNameSamples == {Arr(<<A, C>>), Str(NameWithSelector), Arr(<<NameWithSelector, B>>)}

\* runs with restoreSchema, backupSchema or applySchema set
SchemaInputs ==
    {[explicit |-> [DefaultParams EXCEPT !.collectionName = name,
                                         !.collectionOutput = Str(NO_WRITE),
                                         !.assetsOutput = Str(NO_WRITE),
                                         !.restoreSchema = restoreSchema,
                                         !.backupSchema = backupSchema,
                                         !.applySchema = applySchema],
      configFile |-> "absent", config |-> Unset, env |-> Unset] :
        name \in SchemaNameSamples,
        restoreSchema \in {EmptyString, Str(RestoreFile)},
        backupSchema \in {EmptyString, Str(BackupFile)},
        applySchema \in {Bool(FALSE), Bool(TRUE)}}
    \ FetchInputs

QuietParams ==
    [DefaultParams EXCEPT !.collectionOutput = Str(NO_WRITE),
                          !.assetsOutput = Str(NO_WRITE)]

\* runs that leave the collection name to the config file and the environment
ConfigInputs ==
    {[explicit |-> QuietParams, configFile |-> "valid",
      config |-> [Unset EXCEPT !.collectionName = configName],
      env |-> [Unset EXCEPT !.collectionName = envName]] :
        configName \in {JsUndefined, Str(B)},
        envName \in {JsUndefined, EmptyString, Str(C)}}
    \cup
    {[explicit |-> QuietParams, configFile |-> configFile, config |-> Unset,
      env |-> [Unset EXCEPT !.collectionName = envName]] :
        configFile \in {"absent", "malformed"},
        envName \in {JsUndefined, EmptyString, Str(C)}}

\* restore runs that leave the apply flag to the APPLY_SCHEMA variable
EnvFlagInputs ==
    {[explicit |-> [QuietParams EXCEPT !.collectionName = Arr(<<A, C>>),
                                       !.restoreSchema = Str(RestoreFile)],
      configFile |-> "absent", config |-> Unset,
      env |-> [Unset EXCEPT !.applySchema = Str(text)]] :
        text \in {TextFalse, TextTrue}}

Inputs == FetchInputs \cup SchemaInputs \cup ConfigInputs \cup EnvFlagInputs

Init ==
    /\ requestStagger = 0
    /\ calls = << >>
    /\ budget = MaxFaults
    /\ ResolveIdle
    /\ input \in Inputs
    /\ inv = IdleInvocation
    /\ tasks = << >>
    /\ assets = << >>
    /\ files = << >>
    /\ callbacks = << >>

\* what the event loop does once module.exports was called: timers, answers
\* of the CMS, continuations after an await, ends of writes
Continues ==
    \/ WrapperStep
    \/ DiffSettles
    \/ ApplySettles
    \/ SnapshotSettles
    \/ \E t \in DOMAIN tasks : ItemsSettles(t)
    \/ \E a \in DOMAIN assets : AssetSettles(a)
    \/ \E f \in DOMAIN files, ok \in BOOLEAN : WriteCompletes(f, ok)

Next ==
    \/ Invoke
    \/ Continues
    \/ ProcessExits

Spec == Init /\ [][Next]_vars

\* Spec with the event loop's guarantee: a timer that is due expires, a request
\* that was issued is answered, a continuation that is ready runs, a write
\* that was started ends.  Nothing obliges the caller to call, nor the
\* process to end
FairSpec == Spec /\ WF_vars(Continues)

----------------------------------------------------------------------------
(* What a caller of the wrapper observes *)

\* the calls one top-level call r gave rise to: itself and its re-attempts
Family(r) == {i \in DOMAIN calls : calls[i].root = r}

\* the first re-attempt of r
RetryOf(r) == CHOOSE i \in Family(r) \ {r} : \A j \in Family(r) \ {r} : i <= j

HasRetry(r) == Family(r) # {r}

\* underlying directus.request calls issued on behalf of r
RequestsIssued(r) == Cardinality({i \in Family(r) : calls[i].phase # "timer"})

\* every callback of the family has run to its end
Quiescent(r) == \A i \in Family(r) : calls[i].phase = "done"

RECURSIVE CountIn(_, _)
CountIn(seq, x) ==
    IF seq = << >> THEN 0
    ELSE (IF Head(seq) = x THEN 1 ELSE 0) + CountIn(Tail(seq), x)

RECURSIVE SumOver(_, _)
SumOver(S, f) ==
    IF S = {} THEN 0
    ELSE LET x == CHOOSE y \in S : TRUE IN f[x] + SumOver(S \ {x}, f)

\* "Trying again..." lines logged on behalf of r, on either stream
RetryNotices(r) ==
    SumOver(Family(r), [i \in Family(r) |->
        CountIn(calls[i].logged, TryingAgainErr) + CountIn(calls[i].logged, TryingAgainOut)])

RejectedTwice(r) ==
    /\ calls[r].outcome = "reject"
    /\ HasRetry(r)
    /\ calls[RetryOf(r)].outcome = "reject"

RejectedThenValue(r) ==
    /\ calls[r].outcome = "reject"
    /\ HasRetry(r)
    /\ calls[RetryOf(r)].outcome \in TruthyValues

\* C3: a wrapper call whose request is rejected on the first attempt and again
\* on the retry rejects its promise with that error and issues exactly two
\* underlying requests: no third call is made, and once its callbacks have run
\* the promise is rejected with the request's error.
C3_RejectedTwiceRejects ==
    \A r \in TopCalls :
        RejectedTwice(r) =>
            /\ Cardinality(Family(r)) = 2
            /\ RequestsIssued(r) = 2
            /\ calls[r].phase = "done" =>
                   calls[r].state = "rejected" /\ calls[r].reason = "RequestError"

\* C4: for either value of expectValue, a wrapper call whose first request is
\* rejected and whose retry returns a non-empty value resolves to that value,
\* logs exactly one "Trying again..." and issues exactly two requests.
C4_RejectedThenValueResolves ==
    \A r \in TopCalls :
        RejectedThenValue(r) =>
            /\ Cardinality(Family(r)) = 2
            /\ RequestsIssued(r) = 2
            /\ RetryNotices(r) = 1
            /\ calls[r].phase = "done" =>
                   calls[r].state = "resolved"
                   /\ calls[r].value = calls[RetryOf(r)].outcome

\* C5: with expectValue set, an empty result is retried exactly once; if the
\* retry is empty too the promise rejects after exactly two requests, and if
\* the retry returns a value the promise resolves to it.  With expectValue
\* not set, an empty result is the result and nothing is retried.
C5_EmptyResultRetriedOnce ==
    \A r \in TopCalls :
        calls[r].outcome = EmptyValue =>
            IF calls[r].expectValue
            THEN /\ Cardinality(Family(r)) = 2
                 /\ LET q == RetryOf(r) IN
                     /\ ~calls[q].firstAttempt
                     /\ calls[q].outcome = EmptyValue =>
                            /\ calls[r].state = "rejected"
                            /\ RequestsIssued(r) = 2
                            /\ Quiescent(r)
                     /\ calls[q].outcome \in TruthyValues =>
                            /\ calls[r].state = "resolved"
                            /\ calls[r].value = calls[q].outcome
                            /\ RequestsIssued(r) = 2
            ELSE /\ Family(r) = {r}
                 /\ calls[r].state = "resolved"
                 /\ calls[r].value = EmptyValue

\* an expectValue call came back empty twice and its promise is rejected
C5_Witness ==
    \E r \in TopCalls :
        /\ calls[r].expectValue
        /\ calls[r].outcome = EmptyValue
        /\ HasRetry(r)
        /\ calls[RetryOf(r)].outcome = EmptyValue
        /\ calls[r].state = "rejected"

----------------------------------------------------------------------------
(* What an observer of one invocation sees *)

\* every source of the collection name is unset or empty (the config file,
\* when there is one, parsed)
NoCollectionNameResolved ==
    /\ input.configFile # "malformed"
    /\ IsFalsy(input.explicit.collectionName)
    /\ input.configFile = "valid" => IsFalsy(input.config.collectionName)
    /\ IsFalsy(input.env.collectionName)

\* C2: when no collection name is resolved from any source, the invocation
\* reports the error and returns without throwing; no client is created, no
\* request is issued, no file is written, the callback is not invoked and the
\* stagger counter keeps its value.
C2_MissingCollectionNameAborts ==
    (NoCollectionNameResolved /\ inv.pc # "idle") =>
        /\ inv.pc = "returned"
        /\ inv.thrown = "none"
        /\ inv.console = <<NoCollectionNameError>>
        /\ ~inv.client
        /\ calls = << >>
        /\ tasks = << >>
        /\ assets = << >>
        /\ files = << >>
        /\ callbacks = << >>
        /\ requestStagger = 0

C2_Witness ==
    /\ NoCollectionNameResolved
    /\ input.configFile = "valid"
    /\ input.env.collectionName = EmptyString
    /\ inv.pc = "returned"

\* the run is a plain fetch and its forEach has run
FetchStarted ==
    /\ inv.pc = "returned"
    /\ inv.client
    /\ IsFalsy(inv.settings.restoreSchema)
    /\ IsFalsy(inv.settings.backupSchema)

\* the item-read request task t made
RequestOf(t) == calls[tasks[t].call].opts

\* C6: a collection-name setting given as a string that JSON-encodes an array
\* is normalised to that array's elements, and one fetch is made per element,
\* in order, rather than one fetch for the raw string.
C6_JsonArrayStringNormalised ==
    LET name == inv.settings.collectionName IN
    (FetchStarted /\ name.t = "string" /\ ParsesAsArray(name.s)) =>
        /\ inv.names = JSONParseArray(name.s)
        /\ Len(tasks) = Len(JSONParseArray(name.s))
        /\ \A t \in DOMAIN tasks :
              RequestOf(t).collection = JSONParseArray(name.s)[t]

\* the text of name before its first ':' and the text after it
BeforeFirstColon(name) == SubSeq(name, 1, FirstIndex(name, ":") - 1)
AfterFirstColon(name) == SubSeq(name, FirstIndex(name, ":") + 1, Len(name))

\* C7: a raw name containing ':' is split at its first ':' only: the item read
\* is given the text before it as the collection and the entire text after it
\* (later ':' included) as the field selector; a name without ':' is read
\* with no field selector.
C7_SplitAtFirstColonOnly ==
    \A t \in DOMAIN tasks :
        IF Includes(tasks[t].raw, ":")
        THEN /\ RequestOf(t).collection = BeforeFirstColon(tasks[t].raw)
             /\ RequestOf(t).fields = Str(AfterFirstColon(tasks[t].raw))
        ELSE /\ RequestOf(t).collection = tasks[t].raw
             /\ RequestOf(t).fields = JsUndefined

\* the task an item-read call (first attempt or retry) belongs to
TaskOf(i) == CHOOSE t \in DOMAIN tasks : tasks[t].call = calls[i].root

\* C8: the collection argument of every item-read request, first attempts and
\* retries alike, holds no ':' and no part of the requested name's field
\* selector: it is the text of the raw name before its first ':'.
C8_CollectionArgumentWithoutSelector ==
    \A i \in DOMAIN calls :
        calls[i].opts.op = "readItems" =>
            /\ ~Includes(calls[i].opts.collection, ":")
            /\ \E t \in DOMAIN tasks : tasks[t].call = calls[i].root
            /\ LET raw == tasks[TaskOf(i)].raw
               IN  calls[i].opts.collection =
                       IF Includes(raw, ":") THEN BeforeFirstColon(raw) ELSE raw

C8_Witness ==
    \E i \in DOMAIN calls :
        /\ calls[i].opts.op = "readItems"
        /\ calls[i].phase = "inflight"
        /\ ~calls[i].firstAttempt
        /\ tasks[TaskOf(i)].raw = NameWithTwoColons
        /\ calls[i].opts.collection = A

\* the names the run was asked for, as collectionNameArray holds them
Requested == {inv.names[k] : k \in DOMAIN inv.names}

\* the first call the run made for a schema request of this kind
SchemaCall(op) ==
    CHOOSE i \in DOMAIN calls : calls[i].opts.op = op /\ calls[i].root = i

\* the restore path has filtered and reported the diff it received
RestoreReported ==
    /\ ~IsFalsy(inv.settings.restoreSchema)
    /\ inv.client
    /\ inv.pc \in {"awaitApply", "returned"}

DiffReceived == DiffOf(calls[SchemaCall("schemaDiff")].value)
SnapshotReceived == SchemaOf(calls[SchemaCall("schemaSnapshot")].value)

\* result can be had from original by deleting entries
RECURSIVE IsSubsequence(_, _)
IsSubsequence(result, original) ==
    IF result = << >> THEN TRUE
    ELSE IF original = << >> THEN FALSE
    ELSE IF Head(result) = Head(original)
         THEN IsSubsequence(Tail(result), Tail(original))
         ELSE IsSubsequence(result, Tail(original))

\* result holds the entries of original whose collection is requested, all
\* of them, no other, in the order original has them
KeepsExactly(result, original, requested) ==
    /\ IsSubsequence(result, original)
    /\ \A k \in DOMAIN result : result[k].collection \in requested
    /\ Len(result) =
           Cardinality({k \in DOMAIN original : original[k].collection \in requested})

KeepsExactlyInEach(result, original, requested) ==
    /\ KeepsExactly(result.collections, original.collections, requested)
    /\ KeepsExactly(result.fields, original.fields, requested)
    /\ KeepsExactly(result.relations, original.relations, requested)

\* C9: schema filtering keeps, in each of collections, fields and relations,
\* exactly the entries whose collection is among the requested names, in
\* their original relative order; the restore diff and the backup snapshot
\* are filtered alike, by the same requested names.
C9_SchemaFilterKeepsRequested ==
    /\ RestoreReported => KeepsExactlyInEach(inv.diff, DiffReceived, Requested)
    /\ \A f \in DOMAIN files :
          files[f].kind = "schema" =>
              KeepsExactlyInEach(files[f].schema, SnapshotReceived, Requested)

C9_Witness ==
    /\ RestoreReported
    /\ inv.names = <<A, C>>
    /\ Len(DiffReceived.collections) = 3
    /\ DiffReceived.collections[2].collection = B
    /\ Len(inv.diff.collections) = 2
    /\ inv.diff.collections[1].collection = A
    /\ inv.diff.collections[2].collection = C

\* the collection identifiers of the requested names, selectors taken off
Identifiers ==
    {IF Includes(name, ":") THEN BeforeFirstColon(name) ELSE name : name \in Requested}

RetainsAll(result, original, ids) ==
    \A k \in DOMAIN original :
        original[k].collection \in ids =>
            \E j \in DOMAIN result : result[j] = original[k]

RetainsAllInEach(result, original, ids) ==
    /\ RetainsAll(result.collections, original.collections, ids)
    /\ RetainsAll(result.fields, original.fields, ids)
    /\ RetainsAll(result.relations, original.relations, ids)

\* C10: when a requested name carries a field selector (A:i), schema backup
\* and schema restore filter on the identifier without the selector: the
\* entries whose collection is A are retained in the backup file and in the
\* restore diff.
C10_SchemaFilterUsesIdentifier ==
    (\E name \in Requested : Includes(name, ":")) =>
        /\ RestoreReported => RetainsAllInEach(inv.diff, DiffReceived, Identifiers)
        /\ \A f \in DOMAIN files :
              files[f].kind = "schema" =>
                  RetainsAllInEach(files[f].schema, SnapshotReceived, Identifiers)

\* an item-read request has been issued (a directusRequest call made for it)
ItemReadIssued == \E i \in DOMAIN calls : calls[i].opts.op = "readItems"

\* nothing of the normal fetch has happened
NoFetch ==
    /\ ~ItemReadIssued
    /\ tasks = << >>
    /\ assets = << >>
    /\ \A f \in DOMAIN files : files[f].kind \notin {"collection", "asset"}
    /\ callbacks = << >>

\* C11 as stated: in a run where backupSchema or restoreSchema is set, no
\* item-read request is issued, no collection JSON or asset file is written
\* and the callback is never invoked.
C11_SchemaModeExcludesFetch ==
    (inv.client /\ (~IsFalsy(inv.settings.backupSchema)
                    \/ ~IsFalsy(inv.settings.restoreSchema))) => NoFetch

\* C11, amended: a run with restoreSchema set never fetches; a run with
\* backupSchema alone fetches the collections as usual, but only once the
\* backup file has been written.
C11_RestoreExcludesFetch ==
    /\ (inv.client /\ ~IsFalsy(inv.settings.restoreSchema)) => NoFetch
    /\ (inv.client /\ ~IsFalsy(inv.settings.backupSchema) /\ ~NoFetch) =>
           \E f \in DOMAIN files : files[f].kind = "schema" /\ files[f].status = "written"

C11_Witness ==
    /\ IsFalsy(inv.settings.restoreSchema)
    /\ ~IsFalsy(inv.settings.backupSchema)
    /\ \E f \in DOMAIN files : files[f].kind = "schema"
    /\ Len(callbacks) = 2
    /\ \A i \in DOMAIN calls : calls[i].state = "resolved"

\* a directusRequest call has been made for a request of this kind
Issued(op) == \E i \in DOMAIN calls : calls[i].opts.op = op

BothSchemaPathsSet ==
    /\ inv.client
    /\ ~IsFalsy(inv.settings.restoreSchema)
    /\ ~IsFalsy(inv.settings.backupSchema)

\* C12: when restoreSchema and backupSchema are both set only the restore
\* path runs: the schema diff is requested once the snapshot file is read, no
\* schema snapshot is ever requested and nothing is written to the backup path.
C12_RestoreBeforeBackup ==
    BothSchemaPathsSet =>
        /\ inv.pc # "threw" => Issued("schemaDiff")
        /\ ~Issued("schemaSnapshot")
        /\ \A f \in DOMAIN files : files[f].path # inv.settings.backupSchema.s
        /\ files = << >>

C12_Witness ==
    /\ BothSchemaPathsSet
    /\ inv.pc = "returned"
    /\ calls[SchemaCall("schemaDiff")].state = "resolved"

\* the console shows the report of the filtered diff before anything else
ReportPrinted ==
    /\ Len(inv.console) >= Len(Report(inv.diff))
    /\ SubSeq(inv.console, 1, Len(Report(inv.diff))) = Report(inv.diff)

OnlyRequestedIn(entries) == \A k \in DOMAIN entries : entries[k].collection \in Requested

\* C13: a schema-apply request is issued only in a run with restoreSchema
\* and the apply flag both set, only after the schema diff has resolved and
\* its report has been printed, and its payload is the filtered diff, every
\* entry of which belongs to a requested collection; a restore run without
\* the apply flag issues no schema-apply request.
C13_ApplyOnlyAfterReportedRestore ==
    \A i \in DOMAIN calls :
        calls[i].opts.op = "schemaApply" =>
            /\ ~IsFalsy(inv.settings.restoreSchema)
            /\ ~IsFalsy(inv.settings.applySchema)
            /\ Issued("schemaDiff")
            /\ calls[SchemaCall("schemaDiff")].state = "resolved"
            /\ ReportPrinted
            /\ calls[i].opts.payload = inv.diff
            /\ KeepsExactlyInEach(calls[i].opts.payload, DiffReceived, Requested)
            /\ OnlyRequestedIn(calls[i].opts.payload.collections)
            /\ OnlyRequestedIn(calls[i].opts.payload.fields)
            /\ OnlyRequestedIn(calls[i].opts.payload.relations)

C13_Witness ==
    /\ Issued("schemaApply")
    /\ inv.names = <<A, C>>
    /\ Len(Report(inv.diff)) > 0
    /\ inv.pc = "returned"
    /\ calls[SchemaCall("schemaApply")].state = "resolved"

\* the run has a collection name and a client, the apply flag is set and
\* restoreSchema is not
ApplyWithoutRestore ==
    /\ inv.client
    /\ ~IsFalsy(inv.settings.applySchema)
    /\ IsFalsy(inv.settings.restoreSchema)

\* C14: a run in which the apply flag is set and restoreSchema is not fails
\* with an uncaught error; it does not go on to the backup or to the fetch of
\* the collections.
C14_ApplyWithoutRestoreFails ==
    ApplyWithoutRestore =>
        /\ inv.pc = "threw"
        /\ ~Issued("schemaSnapshot")
        /\ NoFetch

----------------------------------------------------------------------------
(* SpecPrettify: lines 182-184, 198 and 224-230 applied to the three sources *)
(* of prettify                                                              *)

TextYes == <<"y", "e", "s">>

\* the parameter: left out (-1), 0, false, true, 7, or a text
PrettifyExplicitSamples ==
    {Num(0 - 1), Num(0), Bool(FALSE), Bool(TRUE), Num(7), Str(TextYes)}
\* config["prettify"]: any JSON value
PrettifyConfigSamples ==
    {JsUndefined, JsNull, Num(0), Bool(FALSE), Bool(TRUE), Num(7), Str(TextYes)}
\* env.PRETTIFY: not set, or a text
PrettifyEnvSamples ==
    {JsUndefined, Str(<<"0">>), Str(TextFalse), Str(TextTrue), Str(<<"7">>), Str(TextYes)}

InitPrettify ==
    /\ requestStagger = 0
    /\ calls = << >>
    /\ budget = 0
    /\ FlowIdle
    /\ ImagesIdle
    /\ sources \in [setting : {"prettify"}, explicit : PrettifyExplicitSamples,
                     config : PrettifyConfigSamples, env : PrettifyEnvSamples]
    /\ resolved = [done |-> FALSE, value |-> JsUndefined]

\* lines 182-184, 198, 224-230
ResolvePrettifyOne ==
    /\ ~resolved.done
    /\ resolved' = [done |-> TRUE,
                    value |-> ResolvePrettify(sources.explicit, sources.config,
                                              sources.env)]
    /\ UNCHANGED <<sources, imageVars, wrapperVars, flowVars>>

NextPrettify == ResolvePrettifyOne

SpecPrettify == InitPrettify /\ [][NextPrettify]_vars

\* a source of prettify holds a value: the parameter was given (not -1), the
\* config key or the variable exists
PrettifySet(k) ==
    /\ Precedence[k].t \notin {"undefined", "null"}
    /\ k = 1 => Precedence[k] # Num(0 - 1)

IsNumericText(chars) == chars # << >> /\ \A k \in DOMAIN chars : IsDigit(chars[k])

\* the width the documentation gives a set value: 0 for 0 and false, the
\* number itself for a number, 4 for true and for any other truthy value
DocumentedWidth(v) ==
    CASE v.t = "boolean" -> IF v.n = 1 THEN 4 ELSE 0
      [] v.t = "number" -> v.n
      [] v.t = "string" ->
             IF v.s = TextTrue THEN 4
             ELSE IF v.s = TextFalse THEN 0
             ELSE IF IsNumericText(v.s) THEN ParseInt(v.s).n
             ELSE IF v.s = << >> THEN 0 ELSE 4

\* C15: prettify resolves to the first set value in the order explicit,
\* config file, environment, and maps it to a width: 0 or false gives 0, true
\* or any truthy non-numeric value (the text yes) gives 4, a number such as 7
\* is used as it is, and with no source set the width is 4.
C15_PrettifyWidth ==
    resolved.done =>
        /\ resolved.value.t = "number"
        /\ (\E k \in 1..3 : PrettifySet(k)) =>
               \E k \in 1..3 :
                   /\ PrettifySet(k)
                   /\ \A j \in 1..(k - 1) : ~PrettifySet(j)
                   /\ resolved.value.n = DocumentedWidth(Precedence[k])
        /\ (\A k \in 1..3 : ~PrettifySet(k)) => resolved.value.n = 4

----------------------------------------------------------------------------
(* Output paths, seen from outside *)

\* template with every occurrence of placeholder replaced by text (text
\* holding no placeholder itself)
RECURSIVE ReplaceEvery(_, _, _)
ReplaceEvery(template, placeholder, text) ==
    IF template = << >> THEN << >>
    ELSE IF StartsAt(template, placeholder, 1)
         THEN text \o ReplaceEvery(SubSeq(template, Len(placeholder) + 1, Len(template)),
                                   placeholder, text)
         ELSE <<Head(template)>> \o ReplaceEvery(Tail(template), placeholder, text)

\* C16: an output path is its template with every occurrence of the
\* placeholder replaced ({{collectionName}} by the collection identifier,
\* {{filename}} by the asset's download filename); a template without the
\* placeholder is the path itself.
C16_EveryPlaceholderReplaced ==
    /\ \A f \in DOMAIN files :
          files[f].kind = "collection" =>
              \E t \in DOMAIN tasks :
                  /\ files[f].path = ReplaceEvery(inv.settings.collectionOutput.s,
                                                  CollectionNameTemplate,
                                                  tasks[t].collection)
                  /\ ~Contains(inv.settings.collectionOutput.s, CollectionNameTemplate)
                         => files[f].path = inv.settings.collectionOutput.s
    /\ \A a \in DOMAIN assets :
          assets[a].filename =
              ReplaceEvery(inv.settings.assetsOutput.s, FilenameTemplate, PictureName)

----------------------------------------------------------------------------
(* The callback, seen from outside *)

\* the fetch of task t has resolved and the task has run to its end
FetchedAndFinished(t) ==
    /\ calls[tasks[t].call].state = "resolved"
    /\ tasks[t].pc # "awaitItems"

CallbacksOf(t) == {k \in DOMAIN callbacks : callbacks[k].task = t}

\* C17: for every requested collection whose item fetch resolves, the
\* callback is invoked exactly once with the fetched data, whether or not
\* the directory creation, the JSON write or an asset download or write
\* fails, and also when writing is disabled with NO_WRITE.
C17_CallbackOncePerFetchedCollection ==
    \A t \in DOMAIN tasks :
        /\ Cardinality(CallbacksOf(t)) <= 1
        /\ FetchedAndFinished(t) =>
               \E k \in DOMAIN callbacks :
                   /\ callbacks[k].task = t
                   /\ callbacks[k].data = calls[tasks[t].call].value

----------------------------------------------------------------------------
(* SpecImages: findImagesInDirectusData applied to nested objects *)

OwnKinds == {"none", "id", "name", "both"}

\* the object's own entries: an id, a filename_download, both or neither
Own(kind, tag) ==
    CASE kind = "none" -> <<Entry("title", Scalar(<<tag>>))>>
      [] kind = "id" -> <<Entry("id", Scalar(<<tag>>))>>
      [] kind = "name" -> <<Entry("filename_download", Scalar(<<tag>>))>>
      [] kind = "both" -> <<Entry("id", Scalar(<<tag>>)),
                            Entry("filename_download", Scalar(<<tag>>))>>

Leaf(kind, tag) == Obj(Own(kind, tag))

\* what the entry p of the root may hold: a scalar, an object, an object
\* with a nested object r, or an array that holds an object
FirstChildSamples ==
    {Scalar(<<"s">>)}
    \cup {Leaf(kind, "p") : kind \in OwnKinds}
    \cup {Obj(Own(kind, "p") \o <<Entry("r", Leaf(inner, "r"))>>) :
              kind \in {"none", "both"}, inner \in {"none", "both"}}
    \cup {List(<<Entry("0", Leaf("both", "l"))>>)}

SecondChildSamples == {Scalar(<<"s">>), Leaf("none", "q"), Leaf("both", "q")}

ObjectSamples ==
    {Obj(Own(kind, "o") \o <<Entry("p", p), Entry("q", q)>>) :
        kind \in OwnKinds, p \in FirstChildSamples, q \in SecondChildSamples}

InitImages ==
    /\ requestStagger = 0
    /\ calls = << >>
    /\ budget = 0
    /\ FlowIdle
    /\ sources = [setting |-> "none", explicit |-> JsUndefined,
                  config |-> JsUndefined, env |-> JsUndefined]
    /\ resolved = [done |-> FALSE, value |-> JsUndefined]
    /\ searched \in ObjectSamples
    /\ found = [done |-> FALSE, images |-> << >>]

\* findImagesInDirectusData(searched)
FindImages ==
    /\ ~found.done
    /\ found' = [done |-> TRUE, images |-> findImagesInDirectusData(searched, << >>)]
    /\ UNCHANGED <<searched, resolveVars, wrapperVars, flowVars>>

NextImages == FindImages

SpecImages == InitImages /\ [][NextImages]_vars

\* the value under key, when object is a plain object that has the key
Child(object, key) ==
    IF object.k = "object" /\ HasKey(object, key)
    THEN object.e[CHOOSE n \in DOMAIN object.e : object.e[n].key = key].v
    ELSE Scalar(<< >>)

\* the reference of a plain object that has both keys, else nothing
OwnReference(object) ==
    IF object.k = "object" /\ HasKey(object, "id") /\ HasKey(object, "filename_download")
    THEN <<[id |-> Get(object, "id"), filename |-> Get(object, "filename_download")]>>
    ELSE << >>

\* the references of the root, of p, of p.r and of q, in that order
ExpectedReferences ==
    OwnReference(searched) \o OwnReference(Child(searched, "p"))
        \o OwnReference(Child(Child(searched, "p"), "r"))
        \o OwnReference(Child(searched, "q"))

\* C18: discovery over nested plain objects returns one reference (id,
\* filename_download) per object that has both keys, in depth-first encounter
\* order: one matching descendant gives one reference, none gives the empty
\* list, two matching siblings give two references in encounter order.
C18_OneReferencePerMatchInOrder ==
    found.done => found.images = ExpectedReferences

C18_Witness ==
    /\ found.done
    /\ OwnReference(searched) = << >>
    /\ OwnReference(Child(searched, "p")) # << >>
    /\ OwnReference(Child(searched, "q")) # << >>
    /\ found.images = <<[id |-> <<"p">>, filename |-> <<"p">>],
                        [id |-> <<"q">>, filename |-> <<"q">>]>>

----------------------------------------------------------------------------
(* Asset downloads, seen from outside *)

Reported(line) == \E k \in DOMAIN inv.console : inv.console[k] = line

\* C19: every discovered asset reference starts its own download through
\* the wrapper with expectValue set; when the write of an asset file fails the
\* failure is caught and reported by that asset's task (and the other writes
\* still take place).
C19_AssetWriteFailureReported ==
    /\ \A a \in DOMAIN assets :
          /\ calls[assets[a].call].opts = ReadAssetArrayBuffer(assets[a].id)
          /\ calls[assets[a].call].expectValue
    /\ \A f \in DOMAIN files :
          (files[f].kind = "asset" /\ files[f].status = "failed") =>
              Reported(ErrorWriting)

----------------------------------------------------------------------------
(* Collection tasks side by side *)

\* the most names one invocation of Inputs asks for
MaxNames == 2

TaskIds == 1..MaxNames

\* the item fetch of task u was rejected on the first attempt and on the retry
FetchFailedTwice(u) ==
    /\ u \in DOMAIN tasks
    /\ RejectedTwice(tasks[u].call)

\* task t has run to its end: items fetched, JSON written, callback invoked
RanToCompletion(t) ==
    /\ t \in DOMAIN tasks
    /\ tasks[t].pc = "done"
    /\ CallbacksOf(t) # {}
    /\ inv.settings.collectionOutput # Str(NO_WRITE) =>
           \E f \in DOMAIN files :
               /\ files[f].kind = "collection"
               /\ files[f].path = Replace(inv.settings.collectionOutput.s,
                                          CollectionNameTemplate, tasks[t].collection)
               /\ files[f].data = calls[tasks[t].call].value
               /\ files[f].status = "written"

\* something of task t's own went wrong: a request of its fetch or of its
\* downloads failed or came back empty, or one of its own writes or its
\* directory creation failed
OwnFailure(t) ==
    /\ t \in DOMAIN tasks
    /\ \/ \E i \in Family(tasks[t].call) : calls[i].outcome \in {"reject", EmptyValue}
       \/ tasks[t].pc = "rejected"
       \/ \E a \in DOMAIN assets :
              /\ assets[a].task = t
              /\ \/ \E i \in Family(assets[a].call) :
                        calls[i].outcome \in {"reject", EmptyValue}
                 \/ assets[a].pc = "rejected"
                 \/ \E f \in DOMAIN files :
                        /\ files[f].kind = "asset"
                        /\ files[f].path = assets[a].filename
                        /\ files[f].status = "failed"
       \/ \E f \in DOMAIN files :
              /\ files[f].kind = "collection"
              /\ files[f].path = Replace(inv.settings.collectionOutput.s,
                                         CollectionNameTemplate, tasks[t].collection)
              /\ files[f].status = "failed"

\* C21: per-collection tasks are independent: when the item fetch of one
\* requested collection fails on both attempts, every other requested
\* collection whose own requests and writes succeed still runs to completion
\* (fetch issued, JSON written, callback invoked), whatever the order of the
\* responses.
C21_OtherTasksRunToCompletion ==
    \A u \in TaskIds : \A t \in TaskIds \ {u} :
        [](FetchFailedTwice(u) /\ t \in DOMAIN tasks
              => <>(RanToCompletion(t) \/ OwnFailure(t)))

----------------------------------------------------------------------------
(* The wrapper's promise in the long run *)

\* SpecRequest with the event loop's guarantee: every timer that is due
\* expires, every request that was issued is answered, every continuation
\* that is ready runs
FairSpecRequest == SpecRequest /\ WF_vars(WrapperStep)

\* no promise handed to a caller is pending
CallersSettled == \A r \in TopCalls : calls[r].state # "pending"

\* C22: every retrying-wrapper call eventually settles: whatever the
\* underlying requests do (value, empty value, rejection) and whatever
\* expectValue is, once every underlying request has completed the promise
\* returned to the caller is resolved or rejected, and stays so.
C22_EveryCallSettles == <>[]CallersSettled

----------------------------------------------------------------------------
(* The apply flag taken from the environment *)

\* APPLY_SCHEMA holds the text 'false'; neither the parameter nor the config
\* file sets applySchema
OnlyEnvSaysFalse ==
    /\ input.env.applySchema = Str(TextFalse)
    /\ IsFalsy(input.explicit.applySchema)
    /\ input.configFile = "absent" \/ IsFalsy(input.config.applySchema)

\* C23: when the APPLY_SCHEMA environment variable holds the text 'false'
\* and neither the parameter nor the config file sets applySchema, the apply
\* flag resolves to not set: a restore run stays a dry run and issues no
\* schema-apply request.
C23_EnvFalseStaysDryRun ==
    (OnlyEnvSaysFalse /\ inv.client) =>
        /\ ~ApplyRequested(inv.settings.applySchema)
        /\ ~Issued("schemaApply")

----------------------------------------------------------------------------
(* The paths of the collection files *)

\* the JSON writes started by the collection tasks (line 324)
CollectionWrites == {f \in DOMAIN files : files[f].kind = "collection"}

\* C24: within one invocation, whatever names are requested and whatever
\* the collection output template is, no two collection tasks write their
\* JSON to the same rendered path, so that the content of an output file
\* does not depend on the order in which the fetches complete.
C24_CollectionPathsDistinct ==
    \A f \in CollectionWrites : \A g \in CollectionWrites \ {f} :
        files[f].path # files[g].path

----------------------------------------------------------------------------
(* The stagger counter, seen from outside *)

\* C20: the stagger counter is process-wide: every directusRequest call
\* (first attempt or retry, for items, assets or schema) takes its delay from
\* the counter and then adds exactly one to it, so the n-th call of the
\* process waits strictly longer than the one before it, and the counter is
\* never lowered or reset.
C20_StaggerCountsEveryCall ==
    /\ requestStagger = Len(calls)
    /\ \A i \in DOMAIN calls : calls[i].delay = 1000 * (i - 1)
    /\ \A i \in DOMAIN calls : i > 1 => calls[i].delay > calls[i - 1].delay

C20_Witness ==
    /\ requestStagger >= 4
    /\ \E i \in DOMAIN calls :
          calls[i].opts.op = "readItems" /\ ~calls[i].firstAttempt
    /\ \E i \in DOMAIN calls :
          calls[i].opts.op = "readAssetArrayBuffer" /\ ~calls[i].firstAttempt
    /\ \A i \in DOMAIN calls : calls[i].phase # "timer"

====
